---- MODULE Spec2Model ----
(***************************************************************************)
(* AI Punk (TypeScript extension prototype): the agent executor loop set   *)
(* up by LangChainAdapter and the file tools it registers, as a state      *)
(* machine over a small file system.                                       *)
(*                                                                         *)
(* A JavaScript string is a sequence of one-character strings; a path      *)
(* string is kept in parsed form, [abs, segs], and spelled out character   *)
(* by character where the code compares path strings (startsWith).         *)
(***************************************************************************)
EXTENDS Integers, Sequences, FiniteSets, TLC

VARIABLES
    workspaceOpen,  \* workspace.workspaceFolders?.[0] is defined
    fs,             \* the file system: absolute file path -> content or NoFile
    call,           \* the last tool invocation: tool, input and what it gave back
    state,          \* AgentExecutor: "Idle", "Thinking", "Acting", "Observing", "Final"
    iterations,     \* AgentExecutor._call: let iterations = 0
    stepsLen,       \* AgentExecutor._call: steps.length (intermediate steps)
    action,         \* the AgentAction the model asked for, while Acting
    modelSteps,     \* Steps produced in this invocation (tool steps and the final one)
    output,         \* how the invocation ended: "none", "answer", "forced", "error"
    writing,        \* fs.writeFile in progress: the file it opened and what it writes
    child,          \* the subprocess of exec that has not yet called back
    configured,     \* the embedding model of the settings (aiPunk.provider)
    indexStore,     \* the files at indexPath: faiss.index and docstore.json
    searcherInstance, \* the singleton CodebaseSearcher, or Null
    indexing,       \* the runs of ai-punk.indexWorkspace, one after the other
    attempts,       \* calls of agent.plan made for the Step the loop is at
    adapter,        \* LangChainAdapter: _model, _embeddings, tools, _agentExecutor
    chat            \* the conversation of the chat view and the handlers at work on it

vars == <<workspaceOpen, fs, call, state, iterations, stepsLen, action, modelSteps, output,
          writing, child, configured, indexStore, searcherInstance, indexing,
          attempts, adapter, chat>>

\* The adapter and the conversation of the chat view.
sessionVars == <<adapter, chat>>

\* What the agent loop and the file tools leave alone.
restVars == <<writing, child, configured, indexStore, searcherInstance, indexing, sessionVars>>

----------------------------------------------------------------------------
(* JavaScript values and strings *)

\* The JavaScript value undefined (no string: its element is not one character).
Undefined == <<"undefined">>

\* A content that stands for "no such file" (ENOENT).
NoFile == <<"ENOENT">>

\* The strings over alphabet A of length at most n.
RECURSIVE StringsUpTo(_, _)
StringsUpTo(A, n) ==
    IF n = 0 THEN {<<>>}
    ELSE LET shorter == StringsUpTo(A, n - 1)
         IN  shorter \cup {Append(s, c) : s \in {t \in shorter : Len(t) = n - 1}, c \in A}

\* s.startsWith(t)
startsWith(s, t) == Len(t) <= Len(s) /\ SubSeq(s, 1, Len(t)) = t

\* t occurs in s at (1-based) position i
OccursAt(s, t, i) == i >= 1 /\ i + Len(t) - 1 <= Len(s) /\ SubSeq(s, i, i + Len(t) - 1) = t

\* s.indexOf(t), 1-based; 0 when t does not occur (JavaScript's -1)
indexOf(s, t) ==
    IF \E i \in 1..(Len(s) + 1) : OccursAt(s, t, i)
    THEN CHOOSE i \in 1..(Len(s) + 1) :
             OccursAt(s, t, i) /\ \A j \in 1..(i - 1) : ~OccursAt(s, t, j)
    ELSE 0

\* s.includes(t)
includes(s, t) == indexOf(s, t) # 0

\* s.split(sep): the pieces between the matches of sep, found left to right,
\* each search resuming after the previous match (String.prototype.split).
RECURSIVE split(_, _)
split(s, sep) ==
    IF sep = <<>>
    THEN [i \in 1..Len(s) |-> <<s[i]>>]
    ELSE LET i == indexOf(s, sep)
         IN  IF i = 0 THEN <<s>>
             ELSE <<SubSeq(s, 1, i - 1)>> \o split(SubSeq(s, i + Len(sep), Len(s)), sep)

\* GetSubstitution (ECMAScript) for a string pattern, which has no captures:
\* $$ is a dollar, $& the match, $` the text before it, $' the text after it;
\* every other character, a lone $ included, stands for itself.
RECURSIVE GetSubstitution(_, _, _, _)
GetSubstitution(matched, before, after, replacement) ==
    IF replacement = <<>> THEN <<>>
    ELSE IF Head(replacement) = "$" /\ Len(replacement) >= 2
              /\ replacement[2] \in {"$", "&", "`", "'"}
         THEN LET c    == replacement[2]
                  rest == SubSeq(replacement, 3, Len(replacement))
                  sub  == CASE c = "$" -> <<"$">>
                            [] c = "&" -> matched
                            [] c = "`" -> before
                            [] c = "'" -> after
              IN  sub \o GetSubstitution(matched, before, after, rest)
         ELSE <<Head(replacement)>>
                  \o GetSubstitution(matched, before, after, Tail(replacement))

\* s.replace(pattern, replacement) with a string pattern: the first match only,
\* the replacement expanded by GetSubstitution.
replace(s, pattern, replacement) ==
    LET pos == indexOf(s, pattern)
    IN  IF pos = 0 THEN s
        ELSE LET before == SubSeq(s, 1, pos - 1)
                 after  == SubSeq(s, pos + Len(pattern), Len(s))
             IN  before \o GetSubstitution(pattern, before, after, replacement) \o after

----------------------------------------------------------------------------
(* Paths (node:path, POSIX) *)

\* How each path segment of the model is written.
Spell(seg) ==
    CASE seg = "proj"         -> <<"p", "r", "o", "j">>
      [] seg = "proj-evil"    -> <<"p", "r", "o", "j", "-", "e", "v", "i", "l">>
      [] seg = "etc"          -> <<"e", "t", "c">>
      [] seg = "passwd"       -> <<"p", "a", "s", "s", "w", "d">>
      [] seg = "d"            -> <<"d">>
      [] seg = "x"            -> <<"x">>
      [] seg = "a.txt"        -> <<"a", ".", "t", "x", "t">>
      [] seg = "package.json" -> <<"p", "a", "c", "k", "a", "g", "e", ".", "j", "s", "o", "n">>
      [] seg = ".."           -> <<".", ".">>
      [] seg = "."            -> <<".">>
      [] seg = "a"            -> <<"a">>
      [] seg = "b"            -> <<"b">>
      [] seg = "aa"           -> <<"a", "a">>
      [] seg = "ab"           -> <<"a", "b">>
      [] seg = "ba"           -> <<"b", "a">>
      [] seg = "aab"          -> <<"a", "a", "b">>
      [] seg = "aba"          -> <<"a", "b", "a">>

\* A path string in parsed form: absolute or relative, and its segments.
Path(abs, segs) == [abs |-> abs, segs |-> segs]

\* The field of an input object that is missing.
UndefinedPath == Path(FALSE, <<"undefined">>)

\* The string of an absolute, normalised path: "/" & seg & "/" & seg ...
RECURSIVE PathString(_)
PathString(segs) ==
    IF segs = <<>> THEN <<"/">>
    ELSE IF Len(segs) = 1 THEN <<"/">> \o Spell(segs[1])
    ELSE PathString(SubSeq(segs, 1, Len(segs) - 1)) \o <<"/">> \o Spell(segs[Len(segs)])

\* path.normalize on the segments of an absolute path: "." is dropped and
\* ".." removes the segment before it (at the root there is none to remove).
RECURSIVE normalize(_, _)
normalize(done, rest) ==
    IF rest = <<>> THEN done
    ELSE IF Head(rest) = "." THEN normalize(done, Tail(rest))
    ELSE IF Head(rest) = ".."
         THEN normalize(IF done = <<>> THEN done ELSE SubSeq(done, 1, Len(done) - 1),
                        Tail(rest))
    ELSE normalize(Append(done, Head(rest)), Tail(rest))

\* path.resolve(root, p): an absolute p replaces the root, a relative p is
\* appended to it; the result is normalised.
resolve(root, p) ==
    IF p.abs THEN normalize(<<>>, p.segs) ELSE normalize(<<>>, root \o p.segs)

\* path.join(root, p): p is appended to the root also when it is absolute.
join(root, p) == normalize(<<>>, root \o p.segs)

\* path.basename and path.dirname of an absolute, normalised path
basename(segs) == IF segs = <<>> THEN "" ELSE segs[Len(segs)]
dirname(segs) == IF segs = <<>> THEN <<>> ELSE SubSeq(segs, 1, Len(segs) - 1)

\* workspace.workspaceFolders[0].uri.fsPath
rootPath == <<"proj">>

\* Whether an absolute path is the workspace root or lies below it.
InWorkspace(segs) == Len(segs) >= Len(rootPath) /\ SubSeq(segs, 1, Len(rootPath)) = rootPath

----------------------------------------------------------------------------
(* The file system (fs/promises) *)

\* The files the model follows, inside and outside the workspace.
FilePaths ==
    { <<"proj", "a.txt">>, <<"proj", "package.json">>, <<"proj", "d", "package.json">>,
      <<"etc", "passwd">>, <<"proj-evil", "x">> }

\* The directories; they exist throughout.
Dirs == { <<>>, <<"proj">>, <<"proj", "d">>, <<"etc">>, <<"proj-evil">> }

InsideFiles == {f \in FilePaths : InWorkspace(f)}

exists(files, target) ==
    target \in Dirs \/ (target \in FilePaths /\ files[target] # NoFile)

\* fs.readFile(target, 'utf-8'): [err, data]
readFile(files, target, io) ==
    IF io = "readFile" THEN [err |-> "EACCES", data |-> <<>>]
    ELSE IF target \in Dirs THEN [err |-> "EISDIR", data |-> <<>>]
    ELSE IF ~exists(files, target) THEN [err |-> "ENOENT", data |-> <<>>]
    ELSE [err |-> "none", data |-> files[target]]

\* fs.writeFile(target, content, 'utf-8'): [err, fs]
writeFile(files, target, content, io) ==
    IF io = "writeFile" THEN [err |-> "EACCES", fs |-> files]
    ELSE IF target \in Dirs THEN [err |-> "EISDIR", fs |-> files]
    ELSE IF target \notin FilePaths THEN [err |-> "ENOENT", fs |-> files]
    ELSE [err |-> "none", fs |-> [files EXCEPT ![target] = content]]

\* fs.unlink(target): [err, fs]
unlink(files, target, io) ==
    IF io = "unlink" THEN [err |-> "EACCES", fs |-> files]
    ELSE IF target \in Dirs THEN [err |-> "EISDIR", fs |-> files]
    ELSE IF ~exists(files, target) THEN [err |-> "ENOENT", fs |-> files]
    ELSE [err |-> "none", fs |-> [files EXCEPT ![target] = NoFile]]

\* fs.access(target): the error, "none" when the path exists
access(files, target, io) ==
    IF io = "access" THEN "EACCES"
    ELSE IF ~exists(files, target) THEN "ENOENT"
    ELSE "none"

\* fs.mkdir(dir, {recursive: true}): the error; the directories of the model exist
mkdir(dir, io) == IF io = "mkdir" THEN "EACCES" ELSE "none"

\* fs.readdir(target, {withFileTypes: true}): [err, entries], the entries as
\* the set of [name, isDirectory]
readdir(files, target, io) ==
    IF io = "readdir" THEN [err |-> "EACCES", entries |-> {}]
    ELSE IF target \in FilePaths /\ exists(files, target)
         THEN [err |-> "ENOTDIR", entries |-> {}]
    ELSE IF target \notin Dirs THEN [err |-> "ENOENT", entries |-> {}]
    ELSE [err |-> "none",
          entries |->
              {[name |-> basename(c), isDirectory |-> c \in Dirs] :
                  c \in {e \in Dirs \cup {f \in FilePaths : files[f] # NoFile} :
                            e # <<>> /\ dirname(e) = target}}]

----------------------------------------------------------------------------
(* Tool inputs and observations *)

\* The value undefined where a number is expected (startLine, endLine).
NoLine == 0 - 1000

\* What a tool's func is called with. shape is the JavaScript type of the
\* argument ("string", "object" or "undefined"). A string argument is the
\* path, query or command itself (path, text), or, for search_replace, JSON
\* text (json: "invalid", "null" or "object", with the object's fields). An
\* object argument carries the fields; a field that is missing is undefined.
Input(shape, json, path, content, old_string, new_string, text, startLine, endLine) ==
    [shape |-> shape, json |-> json, path |-> path, content |-> content,
     old_string |-> old_string, new_string |-> new_string, text |-> text,
     startLine |-> startLine, endLine |-> endLine]

NoInput ==
    Input("undefined", "none", UndefinedPath, Undefined, Undefined, Undefined, Undefined,
          NoLine, NoLine)

\* A path given as a plain string argument.
StringPath(p) == [NoInput EXCEPT !.shape = "string", !.path = p]
\* A query or a command given as a plain string argument.
StringText(t) == [NoInput EXCEPT !.shape = "string", !.text = t]
\* {path, content}, each possibly missing
EditParams(p, c) == [NoInput EXCEPT !.shape = "object", !.path = p, !.content = c]
\* {path, startLine, endLine}
ReadParams(p, s, e) ==
    [NoInput EXCEPT !.shape = "object", !.path = p, !.startLine = s, !.endLine = e]
\* JSON text of {file_path, old_string, new_string}
SearchReplaceJSON(p, o, n) ==
    [NoInput EXCEPT !.shape = "string", !.json = "object", !.path = p,
                    !.old_string = o, !.new_string = n]
\* A string that is no JSON text
InvalidJSON == [NoInput EXCEPT !.shape = "string", !.json = "invalid"]

\* The observation string a tool returns: which return statement produced it
\* (kind) and what it interpolates: the path argument, file text, a count, a
\* line range, directory entries, a list of matching paths.
Observation(kind) ==
    [kind |-> kind, path |-> UndefinedPath, text |-> <<>>, n |-> 0,
     first |-> 0, last |-> 0, entries |-> {}, list |-> <<>>]

\* A call that returned an observation, leaving the file system as files.
Returned(obs, files) == [rejected |-> FALSE, observation |-> obs, fs |-> files]

\* A call whose promise rejected: an exception left the func.
Rejected(files) == [rejected |-> TRUE, observation |-> Observation("TypeError"), fs |-> files]

\* What the operating system does during one call: the fs fault, how the
\* subprocess of exec ends (with how many matching lines in its stdout, when
\* it is rg), and the order in which glob reports the files.
Env(io, proc, order) == [io |-> io, proc |-> proc, order |-> order, matches |-> 1]

----------------------------------------------------------------------------
(* edit_file (EditFileTool.ts) *)

editFileTool(params, files, open, env) ==
    IF params.shape = "undefined"
    THEN Returned(Observation("WriteError"), files)      \* destructuring undefined throws
    ELSE
    LET filePath == IF params.shape = "object" THEN params.path ELSE UndefinedPath
        content  == IF params.shape = "object" THEN params.content ELSE Undefined
    IN  IF filePath = UndefinedPath \/ content = Undefined
        THEN Returned(Observation("InvalidInput"), files)
        ELSE IF ~open THEN Returned(Observation("NoWorkspace"), files)
        ELSE LET targetPath == resolve(rootPath, filePath)
                 dir        == dirname(targetPath)
             IN  IF mkdir(dir, env.io) # "none"
                 THEN Returned(Observation("WriteError"), files)
                 ELSE LET w == writeFile(files, targetPath, content, env.io)
                      IN  IF w.err # "none"
                          THEN Returned(Observation("WriteError"), files)
                          ELSE Returned([Observation("Success") EXCEPT !.path = filePath],
                                        w.fs)

----------------------------------------------------------------------------
(* edit_file as a StructuredTool (WriteFileTool.ts); the schema admits only
   an object with two strings *)

WriteFileTool(input, files, open, env) ==
    IF ~open THEN Returned(Observation("NoWorkspace"), files)
    ELSE LET targetPath == join(rootPath, input.path)
         IN  IF mkdir(dirname(targetPath), env.io) # "none"
             THEN Returned(Observation("WriteError"), files)
             ELSE LET w == writeFile(files, targetPath, input.content, env.io)
                  IN  IF w.err # "none"
                      THEN Returned(Observation("WriteError"), files)
                      ELSE Returned([Observation("Success") EXCEPT !.path = input.path],
                                    w.fs)

----------------------------------------------------------------------------
(* search_replace (the second tool of FileSearchTool.ts) *)

\* The count without the "- 1": the number of pieces, not of matches.
countOccurrences_Pieces(content, old_string) == Len(split(content, old_string))

\* content.split(old_string).length - 1
countOccurrences(content, old_string) == Len(split(content, old_string)) - 1

searchReplaceTool(input, files, open, env) ==
    IF input.shape # "string" \/ input.json \notin {"null", "object"}
    THEN Returned(Observation("InvalidJSON"), files)
    ELSE IF input.json = "null"
    THEN Returned(Observation("SearchReplaceError"), files)  \* destructuring null throws
    ELSE
    LET file_path  == input.path
        old_string == input.old_string
        new_string == input.new_string
    IN  IF file_path = UndefinedPath \/ (~file_path.abs /\ file_path.segs = <<>>)
           \/ (old_string = Undefined \/ old_string = <<>>) \/ new_string = Undefined
        THEN Returned(Observation("MissingParams"), files)
        ELSE IF ~open THEN Returned(Observation("NoWorkspace"), files)
        ELSE LET targetPath == resolve(rootPath, file_path)
             IN  IF ~startsWith(PathString(targetPath), PathString(rootPath))
                 THEN Returned(Observation("OutOfBounds"), files)
                 ELSE LET r == readFile(files, targetPath, env.io)
                      IN  IF r.err = "ENOENT"
                          THEN Returned([Observation("FileNotFound") EXCEPT !.path = file_path],
                                        files)
                          ELSE IF r.err # "none"
                          THEN Returned(Observation("ReadError"), files)
                          ELSE
                          LET content     == r.data
                              occurrences == countOccurrences(content, old_string)
                          IN  IF occurrences = 0
                              THEN Returned([Observation("NotFound") EXCEPT
                                                 !.path = file_path], files)
                              ELSE IF occurrences > 1
                              THEN Returned([Observation("Ambiguous") EXCEPT
                                                 !.path = file_path, !.n = occurrences],
                                            files)
                              ELSE
                              LET newContent == replace(content, old_string, new_string)
                                  w == writeFile(files, targetPath, newContent, env.io)
                              IN  IF w.err # "none"
                                  THEN Returned(Observation("SearchReplaceError"), files)
                                  ELSE Returned([Observation("Success") EXCEPT
                                                     !.path = file_path, !.n = 1], w.fs)

----------------------------------------------------------------------------
(* delete_file (DeleteFileTool) *)

\* The list with its first entry left out.
criticalFiles_NoManifest == {"tsconfig.json", ".gitignore", "README.md"}

criticalFiles == {"package.json", "tsconfig.json", ".gitignore", "README.md"}

deleteFileTool(filePath, files, open, env) ==
    IF ~open THEN Returned(Observation("NoWorkspace"), files)
    ELSE IF ~(filePath.shape = "string")
    THEN Returned(Observation("DeleteError"), files)          \* path.resolve throws
    ELSE
    LET targetPath == resolve(rootPath, filePath.path)
    IN  IF ~startsWith(PathString(targetPath), PathString(rootPath))
        THEN Returned(Observation("OutOfBounds"), files)
        ELSE IF access(files, targetPath, env.io) # "none"
        THEN Returned([Observation("DoesNotExist") EXCEPT !.path = filePath.path], files)
        ELSE
        LET fileName == basename(targetPath)
        IN  IF fileName \in criticalFiles
            THEN Returned([Observation("ProtectedFile") EXCEPT !.path = filePath.path],
                          files)
            ELSE LET u == unlink(files, targetPath, env.io)
                 IN  IF u.err = "ENOENT"
                     THEN Returned([Observation("FileNotFound") EXCEPT
                                        !.path = filePath.path], files)
                     ELSE IF u.err = "EACCES"
                     THEN Returned([Observation("PermissionDenied") EXCEPT
                                        !.path = filePath.path], files)
                     ELSE IF u.err # "none"
                     THEN Returned(Observation("DeleteError"), files)
                     ELSE Returned([Observation("Success") EXCEPT !.path = filePath.path],
                                   u.fs)

----------------------------------------------------------------------------
(* read_file (ReadFileTool.ts) *)

\* content.split(/\r?\n/)
RECURSIVE splitLines(_)
splitLines(s) ==
    LET i == indexOf(s, <<"\n">>)
    IN  IF i = 0 THEN <<s>>
        ELSE LET line == SubSeq(s, 1, i - 1)
                 cut  == IF line # <<>> /\ line[Len(line)] = "\r"
                         THEN SubSeq(line, 1, Len(line) - 1) ELSE line
             IN  <<cut>> \o splitLines(SubSeq(s, i + 1, Len(s)))

\* lines.slice(start, end) with start >= 0: a negative end counts from the end
slice(lines, start, end) ==
    LET len  == Len(lines)
        from == IF start > len THEN len ELSE start
        to   == IF end < 0 THEN (IF len + end < 0 THEN 0 ELSE len + end)
                ELSE IF end > len THEN len ELSE end
    IN  IF from >= to THEN <<>> ELSE SubSeq(lines, from + 1, to)

\* lines.join('\n')
RECURSIVE joinLines(_)
joinLines(lines) ==
    IF lines = <<>> THEN <<>>
    ELSE IF Len(lines) = 1 THEN lines[1]
    ELSE lines[1] \o <<"\n">> \o joinLines(Tail(lines))

Max(a, b) == IF a >= b THEN a ELSE b
Min(a, b) == IF a <= b THEN a ELSE b

\* a number-or-undefined value used as a condition: undefined and 0 are false
Truthy(n) == n # NoLine /\ n # 0

readFileTool(params, files, open, env) ==
    IF params.shape = "undefined"
    THEN Rejected(files)                       \* params.path, read before the try
    ELSE
    LET filePath  == params.path
        startLine == IF params.shape = "object" THEN params.startLine ELSE NoLine
        endLine   == IF params.shape = "object" THEN params.endLine ELSE NoLine
    IN  IF ~open THEN Returned(Observation("NoWorkspace"), files)
        ELSE IF filePath = UndefinedPath
        THEN Returned(Observation("ReadError"), files)        \* path.resolve throws
        ELSE
        LET targetPath == resolve(rootPath, filePath)
            r == readFile(files, targetPath, env.io)
        IN  IF r.err = "ENOENT"
            THEN Returned([Observation("FileNotFound") EXCEPT !.path = filePath], files)
            ELSE IF r.err # "none"
            THEN Returned(Observation("ReadError"), files)
            ELSE IF startLine = NoLine /\ endLine = NoLine
            THEN Returned([Observation("Contents") EXCEPT
                               !.path = filePath, !.text = r.data], files)
            ELSE
            LET lines == splitLines(r.data)
                start == IF Truthy(startLine) THEN Max(0, startLine - 1) ELSE 0
                end   == IF Truthy(endLine) THEN Min(Len(lines), endLine) ELSE Len(lines)
                selectedLines == slice(lines, start, end)
            IN  Returned([Observation("ContentsOfLines") EXCEPT
                              !.path = filePath, !.first = start + 1, !.last = end,
                              !.text = joinLines(selectedLines)], files)

----------------------------------------------------------------------------
(* list_dir (ListDirTool.ts) *)

listDirTool(input, files, open, env) ==
    IF ~open THEN Returned(Observation("NoWorkspace"), files)
    ELSE IF input.shape = "object"
    THEN Returned(Observation("ListError"), files)            \* path.resolve throws
    ELSE
    LET dirPath == IF input.shape = "undefined" THEN Path(FALSE, <<>>) ELSE input.path
        targetPath == IF dirPath.abs \/ dirPath.segs # <<>>
                      THEN resolve(rootPath, dirPath) ELSE rootPath
        r == readdir(files, targetPath, env.io)
    IN  IF r.err = "ENOENT"
        THEN Returned([Observation("DirectoryNotFound") EXCEPT !.path = dirPath], files)
        ELSE IF r.err # "none"
        THEN Returned(Observation("ListError"), files)
        ELSE IF r.entries = {}
        THEN Returned([Observation("EmptyDirectory") EXCEPT !.path = dirPath], files)
        ELSE Returned([Observation("Contents") EXCEPT
                           !.path = dirPath, !.entries = r.entries], files)

----------------------------------------------------------------------------
(* run_terminal_cmd (RunTerminalCmdTool.ts) *)

runTerminalCmdTool(command, files, open, env) ==
    IF ~open THEN Returned(Observation("NoWorkspace"), files)
    ELSE IF command.shape # "string"
    THEN Rejected(files)                 \* exec throws inside the promise executor
    ELSE IF env.proc \in {"exit1", "exit2", "spawnError"}
    THEN Returned(Observation("CommandError"), files)
    ELSE IF env.proc = "stderr"
    THEN Returned(Observation("CommandStderr"), files)
    ELSE Returned(Observation("CommandSuccess"), files)

----------------------------------------------------------------------------
(* grep_search (GrepSearchTool) *)

\* --max-count=50
maxCount == 50

\* rg -i -n --heading --color=never --max-count=50 "query", run in the
\* workspace root: the number of matching lines it prints. --max-count limits
\* the matching lines of each file searched, not their total.
RECURSIVE matchingLines(_, _)
matchingLines(lines, query) ==
    IF lines = <<>> THEN 0
    ELSE (IF includes(Head(lines), query) THEN 1 ELSE 0) + matchingLines(Tail(lines), query)

RECURSIVE SumOver(_, _, _)
SumOver(S, files, query) ==
    IF S = {} THEN 0
    ELSE LET f == CHOOSE x \in S : TRUE
         IN  Min(matchingLines(splitLines(files[f]), query), maxCount)
                 + SumOver(S \ {f}, files, query)

ripgrep(query, files) ==
    SumOver({f \in InsideFiles : files[f] # NoFile}, files, query)

\* error.code === 1 does not hold (exit 1 is taken for a failure like any other)
noMatchesExit_Never(proc) == FALSE

\* error.code === 1: rg found no match
noMatchesExit(proc) == proc = "exit1"

grepSearchTool(params, files, open, env) ==
    IF ~open THEN Returned(Observation("NoWorkspace"), files)
    ELSE IF params.shape = "undefined"
    THEN Rejected(files)                 \* params.query of undefined
    ELSE
    LET query == params.text
    IN  IF query = Undefined
        THEN Rejected(files)             \* query.replace of undefined
        ELSE IF noMatchesExit(env.proc)
        THEN Returned([Observation("NoMatches") EXCEPT !.text = query], files)
        ELSE IF env.proc \in {"exit1", "exit2", "spawnError"}
        THEN Returned(Observation("GrepError"), files)
        ELSE IF env.proc = "stderr"
        THEN Returned(Observation("GrepWarnings"), files)
        ELSE IF env.proc = "empty"
        THEN Returned([Observation("NoMatches") EXCEPT !.text = query], files)
        ELSE Returned([Observation("GrepResults") EXCEPT
                           !.text = query, !.n = env.matches], files)

----------------------------------------------------------------------------
(* file_search (the first tool of FileSearchTool.ts) *)

\* The path of a file relative to the workspace root, as glob reports it.
RECURSIVE RelativeString(_)
RelativeString(segs) ==
    IF Len(segs) = 1 THEN Spell(segs[1])
    ELSE RelativeString(SubSeq(segs, 1, Len(segs) - 1)) \o <<"/">> \o Spell(segs[Len(segs)])

relative(target) == SubSeq(target, Len(rootPath) + 1, Len(target))

endsWith(s, t) == Len(t) <= Len(s) /\ SubSeq(s, Len(s) - Len(t) + 1, Len(s)) = t

\* The ignore list of the glob call, on a path relative to the root.
ignored(rel) ==
    \/ rel[1] \in {"node_modules", ".git", "dist", "build"} /\ Len(rel) > 1
    \/ Len(rel) = 1 /\ endsWith(Spell(rel[1]), <<".", "l", "o", "g">>)
    \/ Len(rel) = 1 /\ startsWith(Spell(rel[1]), <<".", "e", "n", "v">>)

\* glob("**/*" + query + "*", {cwd: rootPath, nodir: true}): the files below
\* the root whose name contains the query, in the order the walk reports them.
RECURSIVE SelectSeq2(_, _)
SelectSeq2(seq, S) ==
    IF seq = <<>> THEN <<>>
    ELSE IF Head(seq) \in S THEN <<Head(seq)>> \o SelectSeq2(Tail(seq), S)
    ELSE SelectSeq2(Tail(seq), S)

glob(query, files, order) ==
    LET hits == {f \in {g \in DOMAIN files : InWorkspace(g)} :
                    /\ files[f] # NoFile
                    /\ ~ignored(relative(f))
                    /\ includes(Spell(basename(f)), query)}
    IN  SelectSeq2(order, hits)

\* The same for the pattern "**/*[object Object]*" an object argument gives:
\* the brackets are a character class, so a name matches when it contains one
\* of the characters between them.
globObject(files, order) ==
    LET class == {"o", "b", "j", "e", "c", "t", " ", "O"}
        hits == {f \in {g \in DOMAIN files : InWorkspace(g)} :
                    /\ files[f] # NoFile
                    /\ ~ignored(relative(f))
                    /\ \E i \in 1..Len(Spell(basename(f))) : Spell(basename(f))[i] \in class}
    IN  SelectSeq2(order, hits)

\* The array left as glob gave it.
sortByLength_Unsorted(matches) == matches

\* matches.sort((a, b) => a.length - b.length): a stable sort by length
RECURSIVE insertByLength(_, _)
insertByLength(sorted, m) ==
    IF sorted = <<>> THEN <<m>>
    ELSE IF Len(RelativeString(relative(Head(sorted)))) <= Len(RelativeString(relative(m)))
    THEN <<Head(sorted)>> \o insertByLength(Tail(sorted), m)
    ELSE <<m>> \o sorted

RECURSIVE sortByLength(_)
sortByLength(matches) ==
    IF matches = <<>> THEN <<>>
    ELSE insertByLength(sortByLength(SubSeq(matches, 1, Len(matches) - 1)),
                        matches[Len(matches)])

\* The result cap of file_search: .slice(0, 10)
fileSearchCap == 10

fileSearchTool(input, files, open, env) ==
    IF ~open THEN Returned(Observation("NoWorkspace"), files)
    ELSE IF env.io = "readdir"
    THEN Returned(Observation("FileSearchError"), files)      \* glob throws
    ELSE
    LET query == IF input.shape = "string" THEN input.text
                 ELSE <<"u", "n", "d", "e", "f", "i", "n", "e", "d">>
        matches == IF input.shape = "object" THEN globObject(files, env.order)
                   ELSE glob(query, files, env.order)
    IN  IF Len(matches) = 0
        THEN Returned([Observation("NoFilesFound") EXCEPT !.text = query], files)
        ELSE LET sorted == sortByLength(matches)
                 limitedMatches == SubSeq(sorted, 1, Min(fileSearchCap, Len(sorted)))
             IN  Returned([Observation("FilesFound") EXCEPT
                               !.text = query, !.n = Len(matches),
                               !.list = limitedMatches], files)

----------------------------------------------------------------------------
(* The tools the adapter registers (LangChainAdapter.initializeTools) *)

tools ==
    {"list_dir", "read_file", "edit_file", "run_terminal_cmd", "grep_search",
     "file_search", "delete_file", "search_replace"}

\* tool.invoke(input): the func of the tool of that name
invoke(tool, input, files, open, env) ==
    CASE tool = "list_dir"         -> listDirTool(input, files, open, env)
      [] tool = "read_file"        -> readFileTool(input, files, open, env)
      [] tool = "edit_file"        -> editFileTool(input, files, open, env)
      [] tool = "run_terminal_cmd" -> runTerminalCmdTool(input, files, open, env)
      [] tool = "grep_search"      -> grepSearchTool(input, files, open, env)
      [] tool = "file_search"      -> fileSearchTool(input, files, open, env)
      [] tool = "delete_file"      -> deleteFileTool(input, files, open, env)
      [] tool = "search_replace"   -> searchReplaceTool(input, files, open, env)

----------------------------------------------------------------------------
(* The state *)

\* The files at the start: a text file, two manifests, and two files outside
\* the workspace, one of them in a directory whose name starts like the root's.
InitialFs ==
    [f \in FilePaths |->
        CASE f = <<"proj", "a.txt">>               -> <<"a">>
          [] f = <<"proj", "package.json">>        -> <<"p">>
          [] f = <<"proj", "d", "package.json">>   -> <<"p">>
          [] f = <<"etc", "passwd">>               -> <<"s">>
          [] f = <<"proj-evil", "x">>              -> <<"a">>]

\* No path: the argument of the call names none.
NoTarget == <<"undefined">>

\* The absolute path the path argument of a call names.
TargetOf(input) ==
    IF input.path = UndefinedPath THEN NoTarget ELSE resolve(rootPath, input.path)

\* The content of the file at an absolute path, NoFile when there is none.
ContentAt(files, target) == IF target \in FilePaths THEN files[target] ELSE NoFile

\* The record of a tool invocation: what was called with what, the fault of
\* the operating system during it, the file its path argument names and that
\* file's content before the call, whether it repeats the arguments of a call
\* that has just succeeded, and what the call gave back.
CallRecord(tool, input, env, files, r) ==
    [tool |-> tool, input |-> input, io |-> env.io, target |-> TargetOf(input),
     before |-> ContentAt(files, TargetOf(input)),
     repeat |-> (call.tool = tool /\ call.input = input
                    /\ call.observation.kind = "Success"),
     rejected |-> r.rejected, observation |-> r.observation]

NoCall ==
    [tool |-> "none", input |-> NoInput, io |-> "none", target |-> NoTarget,
     before |-> NoFile, repeat |-> FALSE, rejected |-> FALSE,
     observation |-> Observation("none")]

NoAction == [tool |-> "none", toolInput |-> NoInput]

\* JavaScript's null
Null == [null |-> TRUE]

\* No fs.writeFile is in progress.
NoWrite == [phase |-> "none"]

\* initializeTools: the eight tools, and codebase_search if this._embeddings
\* is set at the time of the call.
initializeTools(embeddings) ==
    tools \cup (IF embeddings # Null THEN {"codebase_search"} ELSE {})

\* new LangChainAdapter(): the constructor calls initializeTools and nothing
\* else, with the fields still undefined; apiKey is the setting
\* aiPunk.<provider>.apiKey being set.
NewAdapter(key) ==
    [apiKey |-> key, model |-> Null, embeddings |-> Null,
     tools |-> initializeTools(Null), agentExecutor |-> Null]

\* new InMemoryConversationRepository(): one conversation without messages;
\* no sendMessage event is being handled.
NewChat == [messages |-> <<>>, handlers |-> <<>>]

\* The state outside the loop and the file tools, before anything ran.
AtRest ==
    /\ writing = NoWrite
    /\ child = [phase |-> "none"]
    /\ configured = "A"
    /\ indexStore = [index |-> Null, docstore |-> Null]
    /\ searcherInstance = Null
    /\ indexing = <<>>
    /\ attempts = 0
    /\ adapter = NewAdapter(TRUE)
    /\ chat = NewChat

Init ==
    /\ workspaceOpen \in BOOLEAN
    /\ fs = InitialFs
    /\ call = NoCall
    /\ state = "Idle"
    /\ iterations = 0
    /\ stepsLen = 0
    /\ action = NoAction
    /\ modelSteps = 0
    /\ output = "none"
    /\ writing = NoWrite
    /\ child = [phase |-> "none"]
    /\ configured = "A"
    /\ indexStore = [index |-> Null, docstore |-> Null]
    /\ searcherInstance = Null
    /\ indexing = <<>>
    /\ attempts = 0
    /\ \E key \in BOOLEAN : adapter = NewAdapter(key)
    /\ chat = NewChat

loopVars == <<state, iterations, stepsLen, action, modelSteps, output, attempts>>

----------------------------------------------------------------------------
(* The agent loop: the AgentExecutor that LangChainAdapter.initializeAgent
   builds ({agent, tools, maxIterations: 10}, early stopping left at "force")
   and getCompletion invokes *)

maxIterations == 10

\* The guard with <= for <: one pass too many.
shouldContinue_OneMore(n) == n <= maxIterations

\* AgentExecutor.shouldContinue: the guard of the while loop
shouldContinue(n) == n < maxIterations

\* The path arguments the model gives in the loop.
pA      == Path(FALSE, <<"a.txt">>)
pPkg    == Path(FALSE, <<"package.json">>)
pDPkg   == Path(FALSE, <<"d", "package.json">>)
pUp     == Path(FALSE, <<"..", "etc", "passwd">>)
pEmpty  == Path(FALSE, <<>>)
pD      == Path(FALSE, <<"d">>)

\* The tool calls the language model asks for in the loop: one or two per
\* tool, a tool name that is not registered, and arguments of the wrong shape.
ModelActions ==
    { [tool |-> "list_dir",         toolInput |-> StringPath(pEmpty)],
      [tool |-> "read_file",        toolInput |-> StringPath(pA)],
      [tool |-> "read_file",        toolInput |-> NoInput],
      [tool |-> "edit_file",        toolInput |-> EditParams(pA, <<"w">>)],
      [tool |-> "edit_file",        toolInput |-> StringPath(pA)],
      [tool |-> "run_terminal_cmd", toolInput |-> StringText(<<"l", "s">>)],
      [tool |-> "grep_search",      toolInput |-> StringText(<<"a">>)],
      [tool |-> "grep_search",      toolInput |->
            [NoInput EXCEPT !.shape = "object", !.text = Undefined]],
      [tool |-> "file_search",      toolInput |-> StringText(<<"a">>)],
      [tool |-> "delete_file",      toolInput |-> StringPath(pA)],
      [tool |-> "search_replace",   toolInput |-> SearchReplaceJSON(pA, <<"a">>, <<"n">>)],
      [tool |-> "search_replace",   toolInput |-> InvalidJSON],
      [tool |-> "codebase_search",  toolInput |-> StringText(<<"a">>)],
      [tool |-> "no_such_tool",     toolInput |-> StringText(<<"a">>)] }

\* The order in which glob reports the files of the workspace.
DefaultOrder ==
    CHOOSE o \in [1..Cardinality(InsideFiles) -> InsideFiles] :
        \A i, j \in DOMAIN o : o[i] = o[j] => i = j

\* initializeModel: the model and the embeddings are created from the
\* settings and, with a model, initializeAgent makes the agent and its
\* executor over this.tools (createReactAgent may throw, which is caught and
\* leaves the executor as it was).
initializeModel(a, agentThrows) ==
    LET model == IF a.apiKey THEN [provider |-> configured] ELSE Null
        embeddings == IF a.apiKey THEN [provider |-> configured] ELSE Null
    IN  [a EXCEPT !.model = model,
                  !.embeddings = embeddings,
                  !.agentExecutor = IF model # Null /\ a.tools # {} /\ ~agentThrows
                                    THEN [tools |-> a.tools]
                                    ELSE a.agentExecutor]

\* getCompletion without an executor: initializeModel runs. Without an
\* executor afterwards the call returns "AI Agent could not be
\* initialized..."; with one it goes on to invoke.
InitializeModel ==
    /\ state \in {"Idle", "Final"}
    /\ adapter.agentExecutor = Null
    /\ \E agentThrows \in BOOLEAN :
          /\ adapter' = initializeModel(adapter, agentThrows)
          /\ state' = IF adapter'.agentExecutor = Null THEN "Final" ELSE "Thinking"
          /\ output' = IF adapter'.agentExecutor = Null THEN "uninitialized" ELSE "none"
    /\ iterations' = 0
    /\ stepsLen' = 0
    /\ modelSteps' = 0
    /\ action' = NoAction
    /\ attempts' = 0
    /\ UNCHANGED <<workspaceOpen, fs, call, writing, child, configured, indexStore,
                   searcherInstance, indexing, chat>>

\* The user sets or clears the API key in the settings between two requests.
ConfigureApiKey ==
    /\ state \in {"Idle", "Final"}
    /\ adapter' = [adapter EXCEPT !.apiKey = ~adapter.apiKey]
    /\ UNCHANGED <<workspaceOpen, fs, call, loopVars, writing, child, configured, indexStore,
                   searcherInstance, indexing, chat>>

\* getCompletion: this._agentExecutor.invoke({input, chat_history})
Invoke ==
    /\ state \in {"Idle", "Final"}
    /\ adapter.agentExecutor # Null
    /\ state' = "Thinking"
    /\ iterations' = 0
    /\ stepsLen' = 0
    /\ modelSteps' = 0
    /\ output' = "none"
    /\ action' = NoAction
    /\ attempts' = 0
    /\ UNCHANGED <<restVars, workspaceOpen, fs, call>>

\* One pass of the loop up to the model's answer: agent.plan(steps, inputs).
\* The model gives a final answer, asks for a tool, or its completion fails or
\* cannot be parsed (the exception leaves invoke).
PlanFinish ==
    /\ state = "Thinking" /\ shouldContinue(iterations)
    /\ state' = "Final"
    /\ output' = "answer"
    /\ modelSteps' = modelSteps + 1
    /\ attempts' = attempts + 1
    /\ UNCHANGED <<restVars, workspaceOpen, fs, call, iterations, stepsLen, action>>

PlanAction ==
    /\ state = "Thinking" /\ shouldContinue(iterations)
    /\ \E a \in ModelActions : action' = a
    /\ state' = "Acting"
    /\ modelSteps' = modelSteps + 1
    /\ attempts' = attempts + 1
    /\ UNCHANGED <<restVars, workspaceOpen, fs, call, iterations, stepsLen, output>>

PlanThrows ==
    /\ state = "Thinking" /\ shouldContinue(iterations)
    /\ state' = "Final"
    /\ output' = "error"
    /\ attempts' = attempts + 1
    /\ UNCHANGED <<restVars, workspaceOpen, fs, call, iterations, stepsLen, action, modelSteps>>

\* After the loop: agent.returnStoppedResponse("force", ...), the answer
\* "Agent stopped due to max iterations."
ReturnStoppedResponse ==
    /\ state = "Thinking" /\ ~shouldContinue(iterations)
    /\ state' = "Final"
    /\ output' = "forced"
    /\ modelSteps' = modelSteps + 1
    /\ attempts' = attempts
    /\ UNCHANGED <<restVars, workspaceOpen, fs, call, iterations, stepsLen, action>>

\* The tool is invoked and the model is asked again without the observation
\* having been pushed to the steps.
Act_NoObservation ==
    /\ state = "Acting"
    /\ LET env == Env("none", "ok", DefaultOrder)
           r == IF action.tool \in adapter.agentExecutor.tools
                THEN invoke(action.tool, action.toolInput, fs, workspaceOpen, env)
                ELSE Returned(Observation("InvalidTool"), fs)
       IN  /\ call' = CallRecord(action.tool, action.toolInput, env, fs, r)
           /\ fs' = r.fs
    /\ state' = "Thinking"
    /\ UNCHANGED <<restVars, workspaceOpen, iterations, stepsLen, action, modelSteps, output,
                   attempts>>

\* The tool of the action is looked up by name and invoked; a name that is
\* not registered gives the observation "... is not a valid tool". A rejected
\* call is rethrown by the executor and ends the invocation in getCompletion's
\* catch.
Act ==
    /\ state = "Acting"
    /\ \E env \in {Env(io, proc, DefaultOrder) : io \in {"none", "writeFile"},
                                                   proc \in {"ok", "exit1", "exit2"}} :
          LET r == IF action.tool \in adapter.agentExecutor.tools
                   THEN invoke(action.tool, action.toolInput, fs, workspaceOpen, env)
                   ELSE Returned(Observation("InvalidTool"), fs)
          IN  /\ call' = CallRecord(action.tool, action.toolInput, env, fs, r)
              /\ fs' = r.fs
              /\ state' = IF r.rejected THEN "Final" ELSE "Observing"
              /\ output' = IF r.rejected THEN "error" ELSE output
    /\ UNCHANGED <<restVars, workspaceOpen, iterations, stepsLen, action, modelSteps, attempts>>

\* steps.push({action, observation}); iterations += 1
Observe ==
    /\ state = "Observing"
    /\ stepsLen' = stepsLen + 1
    /\ iterations' = iterations + 1
    /\ state' = "Thinking"
    /\ action' = NoAction
    /\ attempts' = 0
    /\ UNCHANGED <<restVars, workspaceOpen, fs, call, modelSteps, output>>

Next ==
    \/ InitializeModel
    \/ ConfigureApiKey
    \/ Invoke
    \/ PlanFinish
    \/ PlanAction
    \/ PlanThrows
    \/ ReturnStoppedResponse
    \/ Act
    \/ Observe

Spec == Init /\ [][Next]_vars

----------------------------------------------------------------------------
(* The file tools called one after the other, in any order, with arguments
   of every shape and under faults of the operating system *)

\* The path arguments: inside the workspace, outside it by "..", by an
\* absolute path and next to it, a directory, the empty string.
FileArgs == {pA, pPkg, pDPkg, pUp, Path(TRUE, <<"etc", "passwd">>),
             Path(FALSE, <<"..", "proj-evil", "x">>)}

\* A call with the fault the operating system answers it with. Every
\* argument is tried without a fault, and the arguments that reach the file
\* system are tried with each fault of the functions the tool uses.
Faulty(inputs, faults) == {<<input, io>> : input \in inputs, io \in faults}

EditFileCall ==
    \E c \in Faulty({EditParams(p, <<"w">>) : p \in FileArgs \cup {pD}}
                        \cup {EditParams(UndefinedPath, <<"w">>), EditParams(pA, Undefined),
                              StringPath(pA), NoInput},
                    {"none"})
                \cup Faulty({EditParams(pA, <<"w">>)}, {"mkdir", "writeFile"}) :
        LET env == Env(c[2], "ok", DefaultOrder)
            r == editFileTool(c[1], fs, workspaceOpen, env)
        IN  /\ call' = CallRecord("edit_file", c[1], env, fs, r)
            /\ fs' = r.fs
            /\ UNCHANGED <<restVars, workspaceOpen, loopVars>>

WriteFileCall ==
    \E c \in Faulty({EditParams(p, <<"w">>) : p \in FileArgs \cup {pD}}, {"none"})
                \cup Faulty({EditParams(pA, <<"w">>)}, {"mkdir", "writeFile"}) :
        LET env == Env(c[2], "ok", DefaultOrder)
            r == WriteFileTool(c[1], fs, workspaceOpen, env)
        IN  /\ call' = [CallRecord("write_file", c[1], env, fs, r) EXCEPT
                            !.target = join(rootPath, c[1].path),
                            !.before = ContentAt(fs, join(rootPath, c[1].path))]
            /\ fs' = r.fs
            /\ UNCHANGED <<restVars, workspaceOpen, loopVars>>

SearchReplaceCall ==
    \E c \in Faulty({SearchReplaceJSON(p, <<"a">>, <<"w">>) : p \in FileArgs \cup {pD}}
                        \cup {SearchReplaceJSON(UndefinedPath, <<"a">>, <<"w">>),
                              SearchReplaceJSON(pEmpty, <<"a">>, <<"w">>),
                              SearchReplaceJSON(pA, <<>>, <<"w">>),
                              SearchReplaceJSON(pA, <<"a">>, Undefined),
                              InvalidJSON,
                              \* JSON.parse("null")
                              [NoInput EXCEPT !.shape = "string", !.json = "null"],
                              NoInput},
                    {"none"})
                \cup Faulty({SearchReplaceJSON(pA, <<"a">>, <<"w">>)},
                            {"readFile", "writeFile"}) :
        LET env == Env(c[2], "ok", DefaultOrder)
            r == searchReplaceTool(c[1], fs, workspaceOpen, env)
        IN  /\ call' = CallRecord("search_replace", c[1], env, fs, r)
            /\ fs' = r.fs
            /\ UNCHANGED <<restVars, workspaceOpen, loopVars>>

DeleteFileCall ==
    \E c \in Faulty({StringPath(p) : p \in FileArgs \cup {pEmpty, pD}} \cup {NoInput},
                    {"none"})
                \cup Faulty({StringPath(pA), StringPath(pDPkg)}, {"access", "unlink"}) :
        LET env == Env(c[2], "ok", DefaultOrder)
            r == deleteFileTool(c[1], fs, workspaceOpen, env)
        IN  /\ call' = CallRecord("delete_file", c[1], env, fs, r)
            /\ fs' = r.fs
            /\ UNCHANGED <<restVars, workspaceOpen, loopVars>>

ReadFileCall ==
    \E c \in Faulty({StringPath(p) :
                        p \in FileArgs \cup {Path(FALSE, <<"d", "..", "a.txt">>), pD}}
                        \cup {ReadParams(pA, 1, 1), ReadParams(pUp, NoLine, 1),
                              ReadParams(UndefinedPath, NoLine, NoLine), NoInput},
                    {"none"})
                \cup Faulty({StringPath(pA)}, {"readFile"}) :
        LET env == Env(c[2], "ok", DefaultOrder)
            r == readFileTool(c[1], fs, workspaceOpen, env)
        IN  /\ call' = CallRecord("read_file", c[1], env, fs, r)
            /\ fs' = r.fs
            /\ UNCHANGED <<restVars, workspaceOpen, loopVars>>

ListDirCall ==
    \E c \in Faulty({StringPath(p) :
                        p \in {pEmpty, pD, Path(FALSE, <<"..", "etc">>), pA}}
                        \cup {NoInput, EditParams(pA, <<"w">>)},
                    {"none"})
                \cup Faulty({StringPath(pEmpty)}, {"readdir"}) :
        LET env == Env(c[2], "ok", DefaultOrder)
            r == listDirTool(c[1], fs, workspaceOpen, env)
        IN  /\ call' = CallRecord("list_dir", c[1], env, fs, r)
            /\ fs' = r.fs
            /\ UNCHANGED <<restVars, workspaceOpen, loopVars>>

NextTools ==
    \/ EditFileCall
    \/ WriteFileCall
    \/ SearchReplaceCall
    \/ DeleteFileCall
    \/ ReadFileCall
    \/ ListDirCall

SpecTools == Init /\ [][NextTools]_vars

----------------------------------------------------------------------------
(* search_replace on one file, for every content, old_string and new_string
   up to a length: one call, and the same call once more *)

MaxContentLen == 3
MaxOldLen == 2
MaxNewLen == 2

\* The characters of the texts: a letter and the two characters of "$&".
TextChars == {"a", "$", "&"}

InitSearchReplace ==
    /\ workspaceOpen = TRUE
    /\ \E content \in StringsUpTo(TextChars, MaxContentLen) :
          fs = [InitialFs EXCEPT ![<<"proj", "a.txt">>] = content]
    /\ call = NoCall
    /\ state = "Idle"
    /\ iterations = 0
    /\ stepsLen = 0
    /\ action = NoAction
    /\ modelSteps = 0
    /\ output = "none"
    /\ AtRest

SearchReplaceOnce ==
    /\ call = NoCall
    /\ \E old_string \in StringsUpTo(TextChars, MaxOldLen) \ {<<>>},
          new_string \in StringsUpTo(TextChars, MaxNewLen) :
          LET input == SearchReplaceJSON(pA, old_string, new_string)
              env == Env("none", "ok", DefaultOrder)
              r == searchReplaceTool(input, fs, workspaceOpen, env)
          IN  /\ call' = CallRecord("search_replace", input, env, fs, r)
              /\ fs' = r.fs
    /\ UNCHANGED <<restVars, workspaceOpen, loopVars>>

SearchReplaceAgain ==
    /\ call.tool = "search_replace" /\ ~call.repeat
    /\ LET env == Env("none", "ok", DefaultOrder)
           r == searchReplaceTool(call.input, fs, workspaceOpen, env)
       IN  /\ call' = CallRecord("search_replace", call.input, env, fs, r)
           /\ fs' = r.fs
    /\ UNCHANGED <<restVars, workspaceOpen, loopVars>>

NextSearchReplace ==
    \/ SearchReplaceOnce
    \/ SearchReplaceAgain

SpecSearchReplace == InitSearchReplace /\ [][NextSearchReplace]_vars

----------------------------------------------------------------------------
(* read_file with a line range, for every short text and every startLine and
   endLine around its lines *)

MaxTextLen == 4

\* The values of startLine and endLine: undefined, and the integers from
\* below the first line to beyond the last.
LineArgs == ((0 - 2)..(MaxTextLen + 2)) \cup {NoLine}

InitReadLines ==
    /\ workspaceOpen = TRUE
    /\ \E content \in StringsUpTo({"a", "\n"}, MaxTextLen) :
          fs = [InitialFs EXCEPT ![<<"proj", "a.txt">>] = content]
    /\ call = NoCall
    /\ state = "Idle"
    /\ iterations = 0
    /\ stepsLen = 0
    /\ action = NoAction
    /\ modelSteps = 0
    /\ output = "none"
    /\ AtRest

ReadLinesCall ==
    /\ \E startLine \in LineArgs, endLine \in LineArgs :
          LET input == ReadParams(pA, startLine, endLine)
              env == Env("none", "ok", DefaultOrder)
              r == readFileTool(input, fs, workspaceOpen, env)
          IN  /\ call' = CallRecord("read_file", input, env, fs, r)
              /\ fs' = r.fs
    /\ UNCHANGED <<restVars, workspaceOpen, loopVars>>

NextReadLines == ReadLinesCall

SpecReadLines == InitReadLines /\ [][NextReadLines]_vars

----------------------------------------------------------------------------
(* run_terminal_cmd and grep_search with their subprocess: exec starts it,
   time passes while it runs, and the callback of exec gives the
   observation when it has exited. Neither call of exec passes a timeout. *)

MaxElapsed == 3

\* n lines "a"
RECURSIVE Repeat(_)
Repeat(n) ==
    IF n = 0 THEN <<>> ELSE IF n = 1 THEN <<"a">> ELSE <<"a", "\n">> \o Repeat(n - 1)

\* The commands approved by the user. The program asks for no approval and
\* receives none: the only message the webview handles is sendMessage, and
\* the func of run_terminal_cmd calls exec as soon as it is invoked.
approved == {}

InitExec ==
    /\ workspaceOpen = TRUE
    /\ \E n1 \in {0, 1, 30, 60}, n2 \in {0, 30, 60} :
          fs = [InitialFs EXCEPT ![<<"proj", "a.txt">>] = Repeat(n1),
                                 ![<<"proj", "package.json">>] = Repeat(n2)]
    /\ call = NoCall
    /\ state = "Idle"
    /\ iterations = 0
    /\ stepsLen = 0
    /\ action = NoAction
    /\ modelSteps = 0
    /\ output = "none"
    /\ AtRest

\* exec(command, { cwd }, callback)
ExecStart ==
    /\ child.phase # "running"
    /\ \E tool \in {"run_terminal_cmd", "grep_search"}, text \in {<<"a">>, <<"w">>} :
          child' = [phase |-> "running", tool |-> tool, command |-> text,
                    elapsed |-> 0, proc |-> "none"]
    /\ call' = NoCall
    /\ UNCHANGED <<workspaceOpen, fs, loopVars, writing, configured, indexStore,
                   searcherInstance, indexing, sessionVars>>

\* Wall-clock time passes while the subprocess runs.
Tick ==
    /\ child.phase = "running"
    /\ child.elapsed < MaxElapsed
    /\ child' = [child EXCEPT !.elapsed = child.elapsed + 1]
    /\ UNCHANGED <<workspaceOpen, fs, call, loopVars, writing, configured, indexStore,
                   searcherInstance, indexing, sessionVars>>

\* The subprocess has ended and exec calls back with (error, stdout, stderr).
\* rg without a fault exits with 0 and its matches, or with 1 when it has none.
ChildExit ==
    /\ child.phase = "running"
    /\ \E fault \in {"none", "empty", "stderr", "exit1", "exit2", "spawnError"} :
          LET found == IF child.tool = "grep_search" THEN ripgrep(child.command, fs) ELSE 1
              proc == IF fault # "none" THEN fault
                      ELSE IF child.tool = "grep_search" /\ found = 0 THEN "exit1"
                      ELSE "ok"
              env == [Env("none", proc, DefaultOrder) EXCEPT !.matches = found]
              input == StringText(child.command)
              r == invoke(child.tool, input, fs, workspaceOpen, env)
          IN  /\ call' = CallRecord(child.tool, input, env, fs, r)
              /\ child' = [child EXCEPT !.phase = "exited", !.proc = proc]
    /\ UNCHANGED <<workspaceOpen, fs, loopVars, writing, configured, indexStore,
                   searcherInstance, indexing, sessionVars>>

NextExec ==
    \/ ExecStart
    \/ Tick
    \/ ChildExit

SpecExec == InitExec /\ [][NextExec]_vars

----------------------------------------------------------------------------
(* file_search on a workspace of up to fourteen files, for queries that match
   none, some, ten and more than ten of them, glob reporting the files in
   one order or another *)

\* The file names, each in the root and in the directory d.
ManyNames == {"a", "b", "aa", "ab", "ba", "aab", "aba"}
ManyFiles == {<<"proj", n>> : n \in ManyNames} \cup {<<"proj", "d", n>> : n \in ManyNames}

\* One order of the walk; the others are its rotations and their reversals.
BaseOrder ==
    << <<"proj", "d", "aab">>, <<"proj", "a">>, <<"proj", "d", "a">>, <<"proj", "aba">>,
       <<"proj", "d", "b">>, <<"proj", "ab">>, <<"proj", "d", "ba">>, <<"proj", "aa">>,
       <<"proj", "d", "aba">>, <<"proj", "b">>, <<"proj", "d", "ab">>, <<"proj", "aab">>,
       <<"proj", "d", "aa">>, <<"proj", "ba">> >>

Rotate(seq, k) == [i \in 1..Len(seq) |-> seq[((i + k - 1) % Len(seq)) + 1]]

\* The workspace holds the first k files of the base order.
InitFileSearch ==
    /\ workspaceOpen = TRUE
    /\ \E k \in 0..Len(BaseOrder) :
          fs = [f \in ManyFiles |->
                   IF \E i \in 1..k : BaseOrder[i] = f THEN <<"a">> ELSE NoFile]
    /\ call = NoCall
    /\ state = "Idle"
    /\ iterations = 0
    /\ stepsLen = 0
    /\ action = NoAction
    /\ modelSteps = 0
    /\ output = "none"
    /\ AtRest

FileSearchCall ==
    /\ \E query \in {<<"a">>, <<"b">>, <<"a", "b">>, <<"w">>, <<>>},
          k \in 0..(Len(BaseOrder) - 1), reversed \in BOOLEAN :
          \E order \in {IF reversed
                          THEN [i \in 1..Len(BaseOrder) |->
                                   Rotate(BaseOrder, k)[Len(BaseOrder) + 1 - i]]
                          ELSE Rotate(BaseOrder, k)} :
          LET input == StringText(query)
              env == Env("none", "ok", order)
              r == fileSearchTool(input, fs, workspaceOpen, env)
          IN  /\ call' = CallRecord("file_search", input, env, fs, r)
              /\ fs' = r.fs
    /\ UNCHANGED <<restVars, workspaceOpen, loopVars>>

NextFileSearch == FileSearchCall

SpecFileSearch == InitFileSearch /\ [][NextFileSearch]_vars

----------------------------------------------------------------------------
(* fs.writeFile(targetPath, content, 'utf-8') step by step, as edit_file and
   a successful search_replace call it: the file is opened with flag 'w',
   which creates it or truncates it to nothing, the content is written to it
   piece by piece, and it is closed. The process may die and a write may
   fail between any two of the steps. *)

InitWrite ==
    /\ workspaceOpen = TRUE
    /\ \E content \in {NoFile, <<"a">>, <<"w", "a">>} :
          fs = [InitialFs EXCEPT ![<<"proj", "a.txt">>] = content]
    /\ call = NoCall
    /\ state = "Idle"
    /\ iterations = 0
    /\ stepsLen = 0
    /\ action = NoAction
    /\ modelSteps = 0
    /\ output = "none"
    /\ AtRest

\* The tool has come to its call of fs.writeFile, which opens the file.
WriteOpen ==
    /\ writing.phase # "open"
    /\ \E input \in {EditParams(p, c) : p \in {pA, pPkg}, c \in {<<>>, <<"w">>, <<"w", "w">>}}
                        \cup {SearchReplaceJSON(pA, <<"a">>, n) : n \in {<<"w">>, <<"w", "w">>}} :
          LET tool == IF input.shape = "object" THEN "edit_file" ELSE "search_replace"
              r == invoke(tool, input, fs, workspaceOpen, Env("none", "ok", DefaultOrder))
              target == TargetOf(input)
          IN  /\ r.observation.kind = "Success"
              /\ writing' = [phase |-> "open", tool |-> tool, input |-> input,
                             target |-> target, before |-> fs[target],
                             content |-> r.fs[target]]
              /\ fs' = [fs EXCEPT ![target] = <<>>]
    /\ call' = NoCall
    /\ UNCHANGED <<workspaceOpen, loopVars, child, configured, indexStore,
                   searcherInstance, indexing, sessionVars>>

\* write(fd, ...): the next piece of the content reaches the file.
WriteChunk ==
    /\ writing.phase = "open"
    /\ fs[writing.target] # writing.content
    /\ fs' = [fs EXCEPT ![writing.target] =
                  SubSeq(writing.content, 1, Len(fs[writing.target]) + 1)]
    /\ UNCHANGED <<workspaceOpen, call, loopVars, writing, child, configured, indexStore,
                   searcherInstance, indexing, sessionVars>>

\* All is written: the file is closed and the tool returns its success.
WriteClose ==
    /\ writing.phase = "open"
    /\ fs[writing.target] = writing.content
    /\ LET env == Env("none", "ok", DefaultOrder)
           r == Returned([Observation("Success") EXCEPT !.path = writing.input.path], fs)
       IN  call' = [CallRecord(writing.tool, writing.input, env, fs, r) EXCEPT
                        !.before = writing.before]
    /\ writing' = NoWrite
    /\ UNCHANGED <<workspaceOpen, fs, loopVars, child, configured, indexStore,
                   searcherInstance, indexing, sessionVars>>

\* A write fails (the disk is full, an I/O error): fs.writeFile rejects and
\* the catch of the tool returns the error text. The file stays as it is.
WriteFails ==
    /\ writing.phase = "open"
    /\ fs[writing.target] # writing.content
    /\ LET env == Env("writeFile", "ok", DefaultOrder)
           kind == IF writing.tool = "edit_file" THEN "WriteError" ELSE "SearchReplaceError"
           r == Returned(Observation(kind), fs)
       IN  call' = [CallRecord(writing.tool, writing.input, env, fs, r) EXCEPT
                        !.before = writing.before]
    /\ writing' = [writing EXCEPT !.phase = "failed"]
    /\ UNCHANGED <<workspaceOpen, fs, loopVars, child, configured, indexStore,
                   searcherInstance, indexing, sessionVars>>

\* The extension host dies (it is killed, the machine loses power).
Crash ==
    /\ writing.phase = "open"
    /\ writing' = [writing EXCEPT !.phase = "crashed"]
    /\ UNCHANGED <<workspaceOpen, fs, call, loopVars, child, configured, indexStore,
                   searcherInstance, indexing, sessionVars>>

NextWrite ==
    \/ WriteOpen
    \/ WriteChunk
    \/ WriteClose
    \/ WriteFails
    \/ Crash

SpecWrite == InitWrite /\ [][NextWrite]_vars

----------------------------------------------------------------------------
(* The codebase index: the command ai-punk.indexWorkspace builds and saves
   it, the singleton CodebaseSearcher loads it, codebase_search queries it.
   The runs of the command, the loads and the queries are asynchronous and
   interleave at their awaits. *)

MaxBuilds == 2

\* The embedding models the settings can select, and the length of their
\* vectors: two models of one length and one of another.
dimension(m) == IF m = "C" THEN 2 ELSE 1

\* A file written by the save of run number build, whose vectors are of model.
Saved(build, model) == [build |-> build, model |-> model]

\* fs.existsSync(this.indexPath)
existsSync(store) == store.index # Null \/ store.docstore # Null

InitIndex ==
    /\ workspaceOpen = TRUE
    /\ fs = InitialFs
    /\ call = NoCall
    /\ state = "Idle"
    /\ iterations = 0
    /\ stepsLen = 0
    /\ action = NoAction
    /\ modelSteps = 0
    /\ output = "none"
    /\ AtRest

\* The provider of the settings is changed.
Configure ==
    /\ \E m \in {"A", "B", "C"} : m # configured /\ configured' = m
    /\ call' = NoCall
    /\ UNCHANGED <<workspaceOpen, fs, loopVars, writing, child, indexStore,
                   searcherInstance, indexing, sessionVars>>

\* loadIndex up to its await: existsSync decides at once; the load itself
\* comes later, and until then vectorStore keeps what it held.
loadIndex(searcher, store, cause) ==
    IF existsSync(store)
    THEN [searcher EXCEPT !.loading = TRUE, !.cause = cause]
    ELSE [searcher EXCEPT !.vectorStore = Null, !.loading = FALSE, !.cause = cause]

\* createCodebaseSearchTool(embeddings) for the first time:
\* new CodebaseSearcher(embeddings), whose constructor calls loadIndex.
CreateCodebaseSearchTool ==
    /\ searcherInstance = Null
    /\ searcherInstance' =
           loadIndex([embeddings |-> configured, vectorStore |-> Null,
                      loading |-> FALSE, cause |-> "constructor"],
                     indexStore, "constructor")
    /\ call' = NoCall
    /\ UNCHANGED <<workspaceOpen, fs, loopVars, writing, child, configured, indexStore,
                   indexing, sessionVars>>

\* FaissStore.load(this.indexPath, this.embeddings) completes: it reads
\* docstore.json and faiss.index as they are at that moment and throws when
\* one is missing or cannot be read; the catch leaves vectorStore null.
LoadDone ==
    /\ searcherInstance # Null
    /\ searcherInstance.loading
    /\ \E fault \in {"none", "readFile"} :
          searcherInstance' =
              [searcherInstance EXCEPT
                  !.loading = FALSE,
                  !.vectorStore =
                      IF fault # "none" \/ indexStore.index = Null
                                        \/ indexStore.docstore = Null
                      THEN Null
                      ELSE indexStore]
    /\ call' = NoCall
    /\ UNCHANGED <<workspaceOpen, fs, loopVars, writing, child, configured, indexStore,
                   indexing, sessionVars>>

\* The command ai-punk.indexWorkspace: new CodebaseIndexer(embeddings) with
\* the embeddings of the adapter, and indexWorkspace() begins.
IndexWorkspaceStart ==
    /\ Len(indexing) < MaxBuilds
    /\ indexing' = Append(indexing, [embeddings |-> configured, phase |-> "started"])
    /\ call' = NoCall
    /\ UNCHANGED <<workspaceOpen, fs, loopVars, writing, child, configured, indexStore,
                   searcherInstance, sessionVars>>

\* indexWorkspace finds no file or no document and returns without saving,
\* or FaissStore.fromDocuments throws (the embedding provider fails).
IndexWorkspaceWithoutSave ==
    /\ \E b \in DOMAIN indexing, end \in {"empty", "failed"} :
          /\ indexing[b].phase = "started"
          /\ indexing' = [indexing EXCEPT ![b].phase = end]
    /\ call' = NoCall
    /\ UNCHANGED <<workspaceOpen, fs, loopVars, writing, child, configured, indexStore,
                   searcherInstance, sessionVars>>

\* vectorStore.save(this.indexPath), first half: faiss.index is written.
SaveIndexFile ==
    /\ \E b \in DOMAIN indexing :
          /\ indexing[b].phase = "started"
          /\ indexStore' = [indexStore EXCEPT !.index = Saved(b, indexing[b].embeddings)]
          /\ indexing' = [indexing EXCEPT ![b].phase = "savedIndex"]
    /\ call' = NoCall
    /\ UNCHANGED <<workspaceOpen, fs, loopVars, writing, child, configured,
                   searcherInstance, sessionVars>>

\* vectorStore.save(this.indexPath), second half: docstore.json is written.
SaveDocstore ==
    /\ \E b \in DOMAIN indexing :
          /\ indexing[b].phase = "savedIndex"
          /\ indexStore' = [indexStore EXCEPT !.docstore = Saved(b, indexing[b].embeddings)]
          /\ indexing' = [indexing EXCEPT ![b].phase = "saved"]
    /\ call' = NoCall
    /\ UNCHANGED <<workspaceOpen, fs, loopVars, writing, child, configured,
                   searcherInstance, sessionVars>>

\* After indexWorkspace has returned: reloadCodebaseSearchToolIndex()
ReloadCodebaseSearchToolIndex ==
    /\ \E b \in DOMAIN indexing :
          /\ indexing[b].phase \in {"saved", "empty"}
          /\ indexing' = [indexing EXCEPT ![b].phase = "done"]
          /\ searcherInstance' =
                 IF searcherInstance = Null THEN Null
                 ELSE loadIndex(searcherInstance, indexStore,
                                IF indexing[b].phase = "saved" THEN "build" ELSE "empty")
    /\ call' = NoCall
    /\ UNCHANGED <<workspaceOpen, fs, loopVars, writing, child, configured, indexStore, sessionVars>>

\* vectorStore.similaritySearch(query, 5): the query is embedded with the
\* embeddings of the searcher; the index refuses a vector that is not of its
\* length, and the embedding provider may fail. A store whose two files are
\* of different saves gives whatever the positions of the one find in the
\* other: documents or an exception.
similaritySearch(searcher, fault) ==
    LET store == searcher.vectorStore
    IN  IF fault # "none" THEN {"SearchError"}
        ELSE IF dimension(searcher.embeddings) # dimension(store.index.model)
        THEN {"SearchError"}
        ELSE IF store.index # store.docstore THEN {"Results", "SearchError"}
        ELSE {"Results"}

\* CodebaseSearcher.search(query), the func of codebase_search
search(searcher, fault) ==
    IF searcher.vectorStore = Null THEN {"NotIndexed"}
    ELSE similaritySearch(searcher, fault)

Search ==
    /\ searcherInstance # Null
    /\ \E fault \in {"none", "embedQuery"} :
       \E kind \in search(searcherInstance, fault) :
          call' = [NoCall EXCEPT !.tool = "codebase_search",
                                 !.input = StringText(<<"a">>),
                                 !.io = fault,
                                 !.observation = Observation(kind)]
    /\ UNCHANGED <<workspaceOpen, fs, loopVars, writing, child, configured, indexStore,
                   searcherInstance, indexing, sessionVars>>

NextIndex ==
    \/ Configure
    \/ CreateCodebaseSearchTool
    \/ LoadDone
    \/ IndexWorkspaceStart
    \/ IndexWorkspaceWithoutSave
    \/ SaveIndexFile
    \/ SaveDocstore
    \/ ReloadCodebaseSearchToolIndex
    \/ Search

SpecIndex == InitIndex /\ [][NextIndex]_vars

----------------------------------------------------------------------------
(* The chat view: sendMessage events of the webview, each handled by the
   async callback of onDidReceiveMessage, which awaits SendMessage.execute.
   The handlers run on one thread and give way to each other at every
   await; they share the one conversation object of the repository. *)

MaxEvents == 3

\* The bot message made from the completion for the message the adapter
\* read as the latest one; re is the number of the user text answered, 0
\* when the message read was a bot message or none.
botMessage(latest) ==
    [sender |-> "bot", text |-> 0,
     re |-> IF latest.sender = "user" THEN latest.text ELSE 0]

InitChat ==
    /\ workspaceOpen = TRUE
    /\ fs = InitialFs
    /\ call = NoCall
    /\ state = "Idle"
    /\ iterations = 0
    /\ stepsLen = 0
    /\ action = NoAction
    /\ modelSteps = 0
    /\ output = "none"
    /\ AtRest

\* A sendMessage event arrives: the handler posts the user message to the
\* view and calls execute, which calls findById and awaits it. The chat view
\* passes the id of the default conversation; another caller of execute may
\* pass an id the repository does not know.
ReceiveSendMessage ==
    /\ Len(chat.handlers) < MaxEvents
    /\ \E known \in BOOLEAN :
          chat' = [chat EXCEPT !.handlers =
                      Append(@, [pc |-> "findById", known |-> known,
                                 latest |-> Null, posted |-> Null])]
    /\ UNCHANGED <<workspaceOpen, fs, call, loopVars, writing, child, configured,
                   indexStore, searcherInstance, indexing, adapter>>

\* execute after findById: without a conversation it throws; else it pushes
\* the user message and calls getCompletion(conversation.messages), which
\* with an executor reads the latest message at once and awaits invoke, and
\* without one awaits initializeModel first.
PushUserMessage ==
    /\ \E h \in DOMAIN chat.handlers :
          /\ chat.handlers[h].pc = "findById"
          /\ IF ~chat.handlers[h].known
             THEN chat' = [chat EXCEPT !.handlers[h].pc = "failed"]
             ELSE LET userMessage == [sender |-> "user", text |-> h, re |-> 0]
                  IN  chat' = [chat EXCEPT
                          !.messages = Append(@, userMessage),
                          !.handlers[h].pc =
                              IF adapter.agentExecutor = Null THEN "initializeModel"
                                                              ELSE "getCompletion",
                          !.handlers[h].latest =
                              IF adapter.agentExecutor = Null THEN Null
                                                              ELSE userMessage]
    /\ UNCHANGED <<workspaceOpen, fs, call, loopVars, writing, child, configured,
                   indexStore, searcherInstance, indexing, adapter>>

\* getCompletion after initializeModel: without an executor it returns the
\* text "AI Agent could not be initialized..." (the answer to this call);
\* with one it reads messages[messages.length - 1] and awaits invoke.
GetCompletionInitialized ==
    /\ \E h \in DOMAIN chat.handlers, agentThrows \in BOOLEAN :
          /\ chat.handlers[h].pc = "initializeModel"
          /\ adapter' = initializeModel(adapter, agentThrows)
          /\ chat' = [chat EXCEPT
                  !.handlers[h].pc = "getCompletion",
                  !.handlers[h].latest =
                      IF adapter'.agentExecutor = Null
                      THEN [sender |-> "user", text |-> h, re |-> 0]
                      ELSE chat.messages[Len(chat.messages)]]
    /\ UNCHANGED <<workspaceOpen, fs, call, loopVars, writing, child, configured,
                   indexStore, searcherInstance, indexing>>

\* getCompletion settles. Resolved: execute pushes the bot message and calls
\* save, which sets the same object in the map, and awaits it. Rejected (an
\* IAIAdapter may reject; LangChainAdapter catches the errors of invoke):
\* execute has no catch and rejects as well.
PushBotMessage ==
    /\ \E h \in DOMAIN chat.handlers, rejected \in BOOLEAN :
          /\ chat.handlers[h].pc = "getCompletion"
          /\ chat' = IF rejected
                     THEN [chat EXCEPT !.handlers[h].pc = "failed"]
                     ELSE [chat EXCEPT
                              !.messages = Append(@, botMessage(chat.handlers[h].latest)),
                              !.handlers[h].pc = "save"]
    /\ UNCHANGED <<workspaceOpen, fs, call, loopVars, writing, child, configured,
                   indexStore, searcherInstance, indexing, adapter>>

\* execute returns the conversation; the handler reads its last message and
\* posts it to the view as the bot message.
PostBotMessage ==
    /\ \E h \in DOMAIN chat.handlers :
          /\ chat.handlers[h].pc = "save"
          /\ chat' = [chat EXCEPT !.handlers[h].pc = "done",
                                  !.handlers[h].posted = chat.messages[Len(chat.messages)]]
    /\ UNCHANGED <<workspaceOpen, fs, call, loopVars, writing, child, configured,
                   indexStore, searcherInstance, indexing, adapter>>

NextChat ==
    \/ ReceiveSendMessage
    \/ PushUserMessage
    \/ GetCompletionInitialized
    \/ PushBotMessage
    \/ PostBotMessage

SpecChat == InitChat /\ [][NextChat]_vars

----------------------------------------------------------------------------
(* What the claims speak of *)

\* The error kinds of the specification, as the observations of the tools:
\* OutOfBounds is "Cannot ... files outside the workspace", ProtectedFile is
\* "Cannot delete critical file", NotFound is "The specified old_string was
\* not found in <file>", Ambiguous is "The old_string appears <n> times".
Kind == call.observation.kind

\* The number of places at which t occurs in s as a literal substring.
Occurrences(s, t) == Cardinality({i \in 1..Len(s) : OccursAt(s, t, i)})

\* The place of the only occurrence of t in s.
OnlyPlace(s, t) == CHOOSE i \in 1..Len(s) : OccursAt(s, t, i)

\* The file names of the denylist.
Denylist == {"package.json", "tsconfig.json", ".gitignore", "README.md"}

\* A call of search_replace that reached the text of an existing file.
SearchReplaceOnText ==
    /\ call.tool = "search_replace"
    /\ call.input.json = "object"
    /\ call.before # NoFile
    /\ Kind \in {"NotFound", "Ambiguous", "Success"}

(* C4: search_replace reports success only when old_string occurs exactly
   once in the file, and leaves the file as it was whenever old_string occurs
   not at all or more than once. *)
C4_SuccessOnlyOnExactlyOneOccurrence ==
    SearchReplaceOnText =>
        /\ Kind = "Success" => Occurrences(call.before, call.input.old_string) = 1
        /\ Occurrences(call.before, call.input.old_string) # 1
               => fs[call.target] = call.before

(* C5: search_replace answers NotFound, naming the file, when old_string does
   not occur, and Ambiguous when it occurs more than once, and the count in
   the Ambiguous answer is the number of occurrences. *)
C5_NotFoundAndAmbiguousWithCount ==
    SearchReplaceOnText =>
        LET n == Occurrences(call.before, call.input.old_string)
        IN  /\ n = 0 => Kind = "NotFound" /\ call.observation.path = call.input.path
            /\ n > 1 => Kind = "Ambiguous" /\ call.observation.n = n

(* C6: when old_string occurs exactly once, content = pre ++ old_string ++
   post, a successful search_replace leaves pre ++ new_string ++ post, the
   new_string taken literally. *)
C6_NewStringInsertedLiterally ==
    (SearchReplaceOnText /\ Kind = "Success"
        /\ Occurrences(call.before, call.input.old_string) = 1) =>
        LET content == call.before
            old == call.input.old_string
            i == OnlyPlace(content, old)
            pre == SubSeq(content, 1, i - 1)
            post == SubSeq(content, i + Len(old), Len(content))
        IN  fs[call.target] = pre \o call.input.new_string \o post

(* C7: search_replace called again with the arguments of a call that
   succeeded, on a file that no longer contains old_string, answers NotFound
   and leaves the file as the first call left it. *)
C7_SecondCallIsNotFound ==
    (call.tool = "search_replace" /\ call.repeat
        /\ ~includes(call.before, call.input.old_string)) =>
        /\ Kind = "NotFound"
        /\ fs[call.target] = call.before

\* A second call after a success that removed old_string has been made.
C7_Witness ==
    /\ call.tool = "search_replace" /\ call.repeat
    /\ ~includes(call.before, call.input.old_string)
    /\ call.input.new_string # <<>>

(* C1: one invocation of the agent makes at most maxIterations + 1 Steps,
   whatever the model answers: no tool is called once maxIterations tool
   steps are made, and the Step after them is the forced final answer, which
   leaves the loop in Final. *)
C1_FinalWithinMaxIterationsPlusOne ==
    /\ modelSteps <= maxIterations + 1
    /\ state \in {"Acting", "Observing"} => modelSteps <= maxIterations
    /\ modelSteps = maxIterations + 1 => state = "Final" /\ output = "forced"
    /\ output = "forced" => state = "Final" /\ stepsLen = maxIterations

\* The model asked for a tool in every pass and the forced answer ended it.
C1_Witness ==
    state = "Final" /\ output = "forced" /\ modelSteps = maxIterations + 1

(* C2: no call of edit_file, search_replace or delete_file changes a file
   outside the workspace root: the files outside stay as they were, and a
   call whose path names a place outside the root answers OutOfBounds. *)
C2_NoChangeOutsideWorkspace ==
    /\ \A f \in FilePaths : ~InWorkspace(f) => fs[f] = InitialFs[f]
    /\ (call.tool \in {"edit_file", "search_replace", "delete_file"}
           /\ workspaceOpen /\ call.target # NoTarget /\ ~InWorkspace(call.target))
          => Kind = "OutOfBounds"

(* C3: read_file and list_dir with a path that names a place outside the
   workspace root answer OutOfBounds and give back nothing of the file or
   directory there. *)
C3_NoReadOutsideWorkspace ==
    (call.tool \in {"read_file", "list_dir"}
        /\ workspaceOpen /\ call.target # NoTarget /\ ~InWorkspace(call.target))
       => /\ Kind = "OutOfBounds"
          /\ call.observation.text = <<>>
          /\ call.observation.entries = {}

(* C8: delete_file on an existing file in the workspace whose name is in the
   denylist, in whatever directory, leaves the file in place and, the
   operating system reporting no fault, answers ProtectedFile; on any other
   existing file of the workspace a successful delete_file leaves no file. *)
C8_DeleteRefusesDenylistedFiles ==
    (call.tool = "delete_file" /\ workspaceOpen
        /\ call.target \in InsideFiles /\ call.before # NoFile) =>
        IF basename(call.target) \in Denylist
        THEN /\ fs[call.target] = call.before
             /\ call.io = "none" => Kind = "ProtectedFile"
        ELSE /\ Kind = "Success" => fs[call.target] = NoFile
             /\ call.io = "none" => Kind = "Success"

\* delete_file was refused for a manifest in a subdirectory of the workspace.
C8_Witness ==
    /\ call.tool = "delete_file"
    /\ call.target = <<"proj", "d", "package.json">>
    /\ Kind = "ProtectedFile"
    /\ fs[call.target] # NoFile

(* C9: a full overwrite (edit_file, write_file) of a denylisted file in the
   workspace answers ProtectedFile and leaves the content as it was. *)
C9_OverwriteRefusesDenylistedFiles ==
    (call.tool \in {"edit_file", "write_file"} /\ workspaceOpen
        /\ call.target \in InsideFiles /\ basename(call.target) \in Denylist) =>
        /\ Kind = "ProtectedFile"
        /\ fs[call.target] = call.before

(* C10: every tool invocation, whatever the shape of its input and whatever
   fails below it, returns an observation: no call is rejected, and an
   invocation of the agent that ends in an error ends so in the model's
   answer, never in a tool action. *)
C10_EveryToolCallReturns ==
    /\ ~call.rejected
    /\ (state = "Final" /\ output = "error") => action = NoAction

\* The lines of a file, and the lines from..to of them (none when from > to).
LinesOf(content) == splitLines(content)
LinesFromTo(lines, from, to) ==
    IF from > to THEN <<>> ELSE joinLines(SubSeq(lines, from, to))

(* C20: read_file with startLine s and endLine e gives the lines s..e of
   the file, 1-indexed and inclusive, clamped to the first and the last line
   (an s or e that is not given stands for the first or the last line), and
   the range in its label is the range of the lines it gives. Where s..e has
   no line of the file, nothing or the one line the clamped ends name is
   accepted. *)
C20_ReadFileGivesTheLinesAsked ==
    (call.tool = "read_file" /\ Kind \in {"Contents", "ContentsOfLines"}) =>
        LET lines == LinesOf(call.before)
            s  == call.input.startLine
            e  == call.input.endLine
            lo == IF s = NoLine THEN 1 ELSE Max(s, 1)
            hi == IF e = NoLine THEN Len(lines) ELSE Min(e, Len(lines))
            clampedLo == Min(lo, Len(lines))
            clampedHi == Max(hi, 1)
        IN  IF lo <= hi
            THEN /\ call.observation.text = LinesFromTo(lines, lo, hi)
                 /\ Kind = "ContentsOfLines"
                       => call.observation.first = lo /\ call.observation.last = hi
            ELSE call.observation.text
                    \in {<<>>, LinesFromTo(lines, clampedLo, clampedLo),
                               LinesFromTo(lines, clampedHi, clampedHi)}

(* C13: one grep_search observation holds at most maxCount (50) matches,
   however many matching lines the files of the workspace hold. *)
C13_GrepAtMostFiftyMatches ==
    (call.tool = "grep_search" /\ Kind = "GrepResults") => call.observation.n <= maxCount

(* C14: in grep_search, exit status 1 of the matcher gives the NoMatches
   observation; every other failure of the execution (another status, a
   subprocess that could not be run) gives the error observation; a run
   without error and with nothing in its output gives NoMatches. *)
C14_GrepExitOneIsNoMatches ==
    (child.phase = "exited" /\ child.tool = "grep_search") =>
        /\ child.proc = "exit1" => Kind = "NoMatches"
        /\ child.proc \in {"exit2", "spawnError"} => Kind = "GrepError"
        /\ child.proc = "empty" => Kind = "NoMatches"
        /\ Kind = "NoMatches" => child.proc \in {"exit1", "empty"}

\* rg ran on a workspace without a match for the query and exited with 1.
C14_Witness ==
    /\ child.phase = "exited" /\ child.tool = "grep_search"
    /\ child.proc = "exit1"
    /\ ripgrep(child.command, fs) = 0
    /\ Kind = "NoMatches"

(* C16: no call of run_terminal_cmd or grep_search waits for its subprocess
   beyond the wall-clock budget: when MaxElapsed has passed the call has
   returned, with a Timeout result if the subprocess is still running. *)
C16_NoWaitBeyondBudget ==
    child.phase = "running" => child.elapsed < MaxElapsed

(* C17: a subprocess of run_terminal_cmd is started only for a command the
   user has approved before. *)
C17_ExecOnlyAfterApproval ==
    (child.phase \in {"running", "exited"} /\ child.tool = "run_terminal_cmd")
        => child.command \in approved

\* The files of the workspace that match the query of the last call, and the
\* length of a path as file_search lists it.
AllMatches ==
    LET m == glob(call.input.text, fs, BaseOrder) IN {m[i] : i \in 1..Len(m)}
ListedLength(f) == Len(RelativeString(relative(f)))

(* C15: file_search lists at most fileSearchCap (10) paths, all of them
   matches; no match left out is strictly shorter than a listed one; the
   listed paths are in non-decreasing order of length; and with no match the
   observation is NoFilesFound. *)
C15_FileSearchShortestFirstCapped ==
    (call.tool = "file_search") =>
        LET list == call.observation.list
            listed == {list[i] : i \in 1..Len(list)}
        IN  IF AllMatches = {}
            THEN Kind = "NoFilesFound"
            ELSE /\ Kind = "FilesFound"
                 /\ Len(list) <= fileSearchCap
                 /\ Len(list) = Cardinality(listed)
                 /\ Len(list) = Min(fileSearchCap, Cardinality(AllMatches))
                 /\ listed \subseteq AllMatches
                 /\ \A m \in AllMatches \ listed, l \in listed :
                        ListedLength(m) >= ListedLength(l)
                 /\ \A i, j \in 1..Len(list) :
                        i <= j => ListedLength(list[i]) <= ListedLength(list[j])

\* More than ten files matched, of which a shorter one was left for a longer
\* one to be listed had the order of glob been kept.
C15_Witness ==
    /\ call.tool = "file_search" /\ Kind = "FilesFound"
    /\ Cardinality(AllMatches) > fileSearchCap
    /\ Len(call.observation.list) = fileSearchCap
    /\ call.observation.n = Cardinality(AllMatches)
    /\ \E m \in AllMatches :
           /\ \A i \in 1..Len(call.observation.list) : call.observation.list[i] # m
           /\ ListedLength(m) > ListedLength(call.observation.list[1])

(* C19: after a crash or a failed write during the write of edit_file or of
   a successful search_replace, the target file holds the whole of what it
   held before (or is absent as before) or the whole new content. *)
C19_WriteAllOrNothing ==
    writing.phase \in {"crashed", "failed"} =>
        fs[writing.target] \in {writing.before, writing.content}

\* The last call is a query of codebase_search.
Queried == call.tool = "codebase_search"

(* C11: when the index the searcher has loaded was built with another
   embedding model than the searcher is configured with, a query answers
   NotIndexed, and so gives no result computed against that index. *)
C11_StaleIndexFailsClosed ==
    (Queried /\ searcherInstance.vectorStore # Null
        /\ searcherInstance.vectorStore.index.model # searcherInstance.embeddings)
       => Kind = "NotIndexed"

(* C12: a query while no index is loaded answers NotIndexed, as a normal
   result; and a query after a build that saved an index and the reload that
   loaded it answers with results (the embedding of the query not failing). *)
C12_NotIndexedThenResults ==
    Queried =>
        /\ ~call.rejected
        /\ searcherInstance.vectorStore = Null => Kind = "NotIndexed"
        /\ (searcherInstance.vectorStore # Null /\ searcherInstance.cause = "build"
               /\ ~searcherInstance.loading /\ call.io = "none")
              => Kind = "Results"

(* C18: the store the searcher holds, and answers queries from, is a whole
   one: its two files are of the same save. *)
C18_NoPartlyWrittenStoreLoaded ==
    (searcherInstance # Null /\ searcherInstance.vectorStore # Null)
       => searcherInstance.vectorStore.index = searcherInstance.vectorStore.docstore

----------------------------------------------------------------------------
(* The loop and the model boundary *)

\* C21: A completion call that fails is called again at least once before
\* the failure is surfaced: when an invocation has ended in the catch of
\* getCompletion because agent.plan threw, plan has been called at least
\* twice for the Step that failed.
C21_FailureRetriedBeforeSurfaced ==
    (state = "Final" /\ output = "error" /\ action = NoAction) => attempts >= 2

\* C22: Within one invocation the Steps run one after the other: the model
\* is asked only while Thinking and only when every earlier Step of the
\* invocation has its observation in the steps; a tool is called only while
\* Acting, for the one pending action; Acting is followed by Observing (or by
\* the end of the invocation when the call threw), Observing by Thinking with
\* the observation appended; and after Final nothing of the invocation
\* changes until a new invocation starts from zero.
C22_OneStepAtATime ==
    [][ /\ state = "Thinking" => state' \in {"Thinking", "Acting", "Final"}
        /\ state = "Acting" =>
              \/ state' = "Acting" /\ action' = action
              \/ state' = "Observing" /\ call'.tool = action.tool /\ ~call'.rejected
              \/ state' = "Final" /\ call'.rejected
        /\ state = "Observing" =>
              \/ state' = "Observing"
              \/ state' = "Thinking" /\ stepsLen' = stepsLen + 1
        /\ state = "Final" =>
              \/ state' = "Final" /\ stepsLen' = stepsLen /\ modelSteps' = modelSteps
              \/ state' \in {"Thinking", "Final"} /\ stepsLen' = 0 /\ modelSteps' = 0
        /\ attempts' > attempts => state = "Thinking" /\ modelSteps = stepsLen
        /\ call' # call => state = "Acting" /\ action # NoAction
      ]_vars

\* Two Steps with a tool call have run and the model then gave its answer.
C22_Witness == state = "Final" /\ output = "answer" /\ stepsLen >= 2 /\ ~call.rejected

----------------------------------------------------------------------------
(* The workspace check on a sibling of the root *)

\* C23: search_replace and delete_file, called with a path that resolves to
\* /proj-evil/x (the root being /proj), answer OutOfBounds and leave the
\* file as it was before the call.
C23_SiblingOfRootRejected ==
    (call.tool \in {"search_replace", "delete_file"} /\ workspaceOpen
        /\ call.target = <<"proj-evil", "x">>)
       => /\ Kind = "OutOfBounds"
          /\ fs[call.target] = call.before

----------------------------------------------------------------------------
(* The count of search_replace *)

\* C25: The count search_replace decides by is the number of places at
\* which old_string occurs in the content, overlapping occurrences included;
\* for a content of three equal characters ("aaa") and an old_string of two of
\* them ("aa") the call answers Ambiguous with the count 2 and leaves the
\* file as it was.
C25_CountIncludesOverlaps ==
    SearchReplaceOnText =>
        /\ countOccurrences(call.before, call.input.old_string)
              = Occurrences(call.before, call.input.old_string)
        /\ (\E c \in TextChars : /\ call.before = <<c, c, c>>
                                  /\ call.input.old_string = <<c, c>>)
              => /\ Kind = "Ambiguous"
                 /\ call.observation.n = 2
                 /\ fs[call.target] = call.before

----------------------------------------------------------------------------
(* The tools of the executor *)

\* C24: Once initializeModel has run with the API key set, so that the
\* embeddings exist, the tools of the agent executor are the eight tools and
\* codebase_search.
C24_CodebaseSearchRegistered ==
    (adapter.agentExecutor # Null /\ adapter.embeddings # Null)
       => adapter.agentExecutor.tools = tools \cup {"codebase_search"}

----------------------------------------------------------------------------
(* The index at the creation of the tool and after a build *)

\* C29: When createCodebaseSearchTool found a whole index of the searcher's
\* model at indexPath (every build had finished before, and the load the
\* constructor started is still running or has succeeded), a query does not
\* answer NotIndexed, and without a fault it answers with results.
C29_QueryAfterCreateFindsIndex ==
    (/\ Queried
     /\ searcherInstance.cause = "constructor"
     /\ \A b \in DOMAIN indexing : indexing[b].phase = "done"
     /\ indexStore.index # Null
     /\ indexStore.index = indexStore.docstore
     /\ indexStore.index.model = searcherInstance.embeddings
     /\ (searcherInstance.loading \/ searcherInstance.vectorStore # Null))
       => /\ Kind # "NotIndexed"
          /\ call.io = "none" => Kind = "Results"

\* C30: A build that returns without error, every other build having
\* finished before, leaves at indexPath the entries of that build alone: the docstore it saved is its own, and a build that
\* found no file or no readable file leaves no entry there at all.
C30_BuildReplacesIndex ==
    [][ \A b \in DOMAIN indexing :
          (/\ b \in DOMAIN indexing'
           /\ indexing'[b].phase # indexing[b].phase
           /\ \A c \in DOMAIN indexing \ {b} : indexing[c].phase = "done") =>
              /\ indexing'[b].phase = "saved" => indexStore'.docstore.build = b
              /\ indexing'[b].phase = "empty" =>
                    indexStore'.index = Null /\ indexStore'.docstore = Null
      ]_vars

----------------------------------------------------------------------------
(* The conversation of the chat view *)

\* C26: Once every call of execute has returned, the messages of the
\* conversation alternate user, bot, user, bot, and each user message is
\* followed at once by the bot message made for its text.
C26_MessagesAlternate ==
    (\A h \in DOMAIN chat.handlers : chat.handlers[h].pc = "done") =>
        /\ Len(chat.messages) = 2 * Len(chat.handlers)
        /\ \A i \in DOMAIN chat.messages :
              IF i % 2 = 1
              THEN chat.messages[i].sender = "user"
              ELSE chat.messages[i] = botMessage(chat.messages[i - 1])

\* C27: The bot message a handler posts to the view is the bot message
\* made for the text of the event that handler was called for.
C27_PostedReplyIsOwn ==
    \A h \in DOMAIN chat.handlers :
        chat.handlers[h].posted # Null =>
            chat.handlers[h].posted = [sender |-> "bot", text |-> 0, re |-> h]

\* C28: A call of execute that failed has left no user message of its own
\* in the messages of the conversation the repository holds.
C28_FailedCallLeavesNoMessage ==
    \A h \in DOMAIN chat.handlers :
        chat.handlers[h].pc = "failed" =>
            \A i \in DOMAIN chat.messages :
                ~(chat.messages[i].sender = "user" /\ chat.messages[i].text = h)

====
